---------------------------- MODULE Spec2Model ----------------------------
(***************************************************************************)
(* Model of gcode_post_processor.py: the modifier loading loop, the        *)
(* multiplier functions and the G-code rewrite loop.                       *)
(*                                                                         *)
(* Text is modelled character by character: a line is a sequence of        *)
(* one-character strings, and the regular expressions, float() and the     *)
(* "%.5f" formatting are operators on such sequences.                      *)
(*                                                                         *)
(* Floats are fixed-point integers:                                        *)
(*   - a parsed number (X, Y, Z, E, reset value) is in units of 10^-5;     *)
(*   - a multiplier is in units of 1/One;                                  *)
(*   - new_E (the rewritten accumulator) is in units of 10^-5 / One, so a  *)
(*     scaled delta delta_E * m is exact.                                  *)
(***************************************************************************)
EXTENDS Integers, Sequences, FiniteSets, TLC

\* ------------------------------------------------------------------ bounds

\* Number of input lines the rewrite loop reads before end of file.
MaxLines == 3

\* Largest num_samples handed to compute_effective_multiplier in EvalSpec.
MaxSamples == 5

\* ------------------------------------------------------------- fixed point

\* The float 1.0 of `overall = 1.0` and `return 1.0`, in multiplier units.
One == 100

\* Units per 1.0 of a parsed number: float() keeps five decimals.
Fix == 10 * 10 * 10 * 10 * 10

\* num_samples=5 of the call in the rewrite loop.
NumSamples == 5

Abs(n) == IF n < 0 THEN -n ELSE n

Min(a, b) == IF a <= b THEN a ELSE b

RECURSIVE Pow(_, _)
Pow(b, e) == IF e = 0 THEN 1 ELSE b * Pow(b, e - 1)

\* math.sqrt / Point.distance on fixed-point squares: the integer root.
RECURSIVE ISqrt(_)
ISqrt(n) ==
    IF n < 2 THEN n
    ELSE LET s == 2 * ISqrt(n \div 4)
         IN  IF (s + 1) * (s + 1) <= n THEN s + 1 ELSE s

\* -------------------------------------------------------------------- text

Digits == {"0", "1", "2", "3", "4", "5", "6", "7", "8", "9"}

DigitVal(c) ==
    CASE c = "0" -> 0 [] c = "1" -> 1 [] c = "2" -> 2 [] c = "3" -> 3
      [] c = "4" -> 4 [] c = "5" -> 5 [] c = "6" -> 6 [] c = "7" -> 7
      [] c = "8" -> 8 [] c = "9" -> 9

DigitChar(d) ==
    CASE d = 0 -> "0" [] d = 1 -> "1" [] d = 2 -> "2" [] d = 3 -> "3"
      [] d = 4 -> "4" [] d = 5 -> "5" [] d = 6 -> "6" [] d = 7 -> "7"
      [] d = 8 -> "8" [] d = 9 -> "9"

\* str.startswith(prefix)
StartsWith(line, prefix) ==
    /\ Len(line) >= Len(prefix)
    /\ SubSeq(line, 1, Len(prefix)) = prefix

\* "E" in line
Contains(line, c) == \E i \in 1..Len(line) : line[i] = c

\* First index >= i of s that holds no digit (Len(s) + 1 when none).
RECURSIVE DigitsEnd(_, _)
DigitsEnd(s, i) ==
    IF i <= Len(s) /\ s[i] \in Digits THEN DigitsEnd(s, i + 1) ELSE i

\* [-+]?[0-9]*\.?[0-9]+ matched at index i of s: the index after the match,
\* or 0 when it does not match there.  Greedy with backtracking: the digits
\* before the point, then ".digits" when a digit follows the point, and
\* otherwise the digits alone, which must then be at least one.
MatchNumber(s, i) ==
    LET j  == IF i <= Len(s) /\ s[i] \in {"-", "+"} THEN i + 1 ELSE i
        d1 == DigitsEnd(s, j)
    IN  IF /\ d1 + 1 <= Len(s)
           /\ s[d1] = "."
           /\ s[d1 + 1] \in Digits
        THEN DigitsEnd(s, d1 + 1)
        ELSE IF d1 > j THEN d1 ELSE 0

\* Whether letter followed by a number matches at index i.
MatchesAt(s, letter, i) ==
    /\ i <= Len(s)
    /\ s[i] = letter
    /\ MatchNumber(s, i + 1) # 0

\* pattern.search(line): the index of the leftmost match, 0 for None.
PatternSearch(letter, line) ==
    IF \E i \in 1..Len(line) : MatchesAt(line, letter, i)
    THEN CHOOSE i \in 1..Len(line) :
            /\ MatchesAt(line, letter, i)
            /\ \A k \in 1..(i - 1) : ~MatchesAt(line, letter, k)
    ELSE 0

\* match.group(1): the number's text of the match at index i.
Group1(line, i) == SubSeq(line, i + 1, MatchNumber(line, i + 1) - 1)

\* The value of a digit string, read as a natural number.
RECURSIVE DigitsValue(_)
DigitsValue(ds) ==
    IF ds = <<>> THEN 0
    ELSE 10 * DigitsValue(SubSeq(ds, 1, Len(ds) - 1)) + DigitVal(ds[Len(ds)])

\* float(text) for a text the number pattern matched, in units of 10^-5.
\* Decimals beyond the fifth are dropped.
ParseFloat(text) ==
    LET neg  == text # <<>> /\ text[1] = "-"
        body == IF text # <<>> /\ text[1] \in {"-", "+"} THEN Tail(text) ELSE text
        d1   == DigitsEnd(body, 1)
        ip   == SubSeq(body, 1, d1 - 1)
        fp0  == IF d1 <= Len(body) THEN SubSeq(body, d1 + 1, Len(body)) ELSE <<>>
        fp   == IF Len(fp0) > 5 THEN SubSeq(fp0, 1, 5) ELSE fp0
        mag  == DigitsValue(ip) * Fix + DigitsValue(fp) * Pow(10, 5 - Len(fp))
    IN  IF neg THEN -mag ELSE mag

\* The decimal digits of a natural number, at least one.
RECURSIVE NatChars(_)
NatChars(n) ==
    IF n < 10 THEN <<DigitChar(n)>>
    ELSE Append(NatChars(n \div 10), DigitChar(n % 10))

\* The digits of n, zero-padded on the left to width w.
RECURSIVE PadChars(_, _)
PadChars(n, w) ==
    IF w = 0 THEN <<>>
    ELSE Append(PadChars(n \div 10, w - 1), DigitChar(n % 10))

\* f"{new_E:.5f}" for an accumulator value in units of 10^-5 / One: rounded
\* to five decimals (half to even), a minus sign for every negative value,
\* "-0.00000" included.
Format5(v) ==
    LET mag == Abs(v)
        q   == mag \div One
        r   == mag % One
        up  == 2 * r > One \/ (2 * r = One /\ q % 2 = 1)
        n   == IF up THEN q + 1 ELSE q
    IN  (IF v < 0 THEN <<"-">> ELSE <<>>)
          \o NatChars(n \div Fix) \o <<".">> \o PadChars(n % Fix, 5)

\* re.sub(r'E[-+]?[0-9]*\.?[0-9]+', repl, line) from index i on: every
\* non-overlapping match, left to right, is replaced.
RECURSIVE ReSubFrom(_, _, _)
ReSubFrom(line, repl, i) ==
    IF i > Len(line) THEN <<>>
    ELSE IF MatchesAt(line, "E", i)
         THEN repl \o ReSubFrom(line, repl, MatchNumber(line, i + 1))
         ELSE <<line[i]>> \o ReSubFrom(line, repl, i + 1)

ReSub(line, repl) == ReSubFrom(line, repl, 1)

\* ---------------------------------------------------------------- geometry

\* n whole units as a fixed-point coordinate.
U(n) == n * Fix

\* Coordinates enter a distance in units of 0.01, so that squares stay small.
Coarse(v) == v \div 1000

\* Point.distance: the planar Euclidean distance, in coordinate units.
Dist2D(ax, ay, bx, by) ==
    LET dx == Coarse(ax) - Coarse(bx)
        dy == Coarse(ay) - Coarse(by)
    IN  ISqrt(dx * dx + dy * dy) * 1000

\* math.sqrt((x - cx)**2 + (y - cy)**2 + (z - cz)**2)
Dist3D(ax, ay, az, bx, by, bz) ==
    LET dx == Coarse(ax) - Coarse(bx)
        dy == Coarse(ay) - Coarse(by)
        dz == Coarse(az) - Coarse(bz)
    IN  ISqrt(dx * dx + dy * dy + dz * dz) * 1000

\* A mesh file's vertices are the corners of an axis-aligned box
\* [x0, x1] x [y0, y1] x [z0, z1]; a box of no extent is a single vertex.
\* Its XY convex hull is the rectangle [x0, x1] x [y0, y1].

\* polygon.contains(Point(x, y)): the interior, the boundary excluded.
PolygonContains(poly, x, y) ==
    /\ poly.x0 < x /\ x < poly.x1
    /\ poly.y0 < y /\ y < poly.y1

\* Whether some polygon covers the points next to (x, y) in the quadrant
\* (sx, sy), each of sx, sy being 1 or -1.
QuadrantCovered(polys, x, y, sx, sy) ==
    \E k \in 1..Len(polys) :
        LET p == polys[k]
        IN  /\ IF sx = 1 THEN p.x0 <= x /\ x < p.x1 ELSE p.x0 < x /\ x <= p.x1
            /\ IF sy = 1 THEN p.y0 <= y /\ y < p.y1 ELSE p.y0 < y /\ y <= p.y1

\* unary_union(polys).contains(Point(x, y)): the interior of the union,
\* which holds the edges two rectangles share.
UnionContains(polys, x, y) ==
    \A sx \in {-1, 1} : \A sy \in {-1, 1} : QuadrantCovered(polys, x, y, sx, sy)

\* --------------------------------------------------------------- modifiers

\* dict.get(key, default)
Get(d, key, default) == IF key \in DOMAIN d THEN d[key] ELSE default

\* trimesh.load raises on a file it cannot read.
MeshLoadRaises(mod_def) == mod_def.file = "corrupt"

\* The convex hull of the XY projections is a polygon (it has an exterior)
\* only when the projection has extent in both X and Y.
HullIsPolygon(mesh) == mesh.x0 < mesh.x1 /\ mesh.y0 < mesh.y1

\* The 2D branch of the loading loop: the exception it ends with, or "".
Load2DError(mod_def) ==
    IF MeshLoadRaises(mod_def) THEN "Exception"
    ELSE IF ~HullIsPolygon(mod_def.mesh) THEN "AttributeError"
    ELSE ""

\* mod_params of the 2D branch.
ModParams2D(mod_def) ==
    LET m  == mod_def.mesh
        cx == (m.x0 + m.x1) \div 2
        cy == (m.y0 + m.y1) \div 2
    IN  [modifier_type     |-> "2D",
         polygon           |-> [x0 |-> m.x0, x1 |-> m.x1, y0 |-> m.y0, y1 |-> m.y1],
         centroid          |-> <<cx, cy, 0>>,
         r_max             |-> Dist2D(cx, cy, m.x1, m.y1),
         center_multiplier |-> mod_def.center_multiplier,
         edge_multiplier   |-> mod_def.edge_multiplier,
         gradient_exponent |-> Get(mod_def, "gradient_exponent", 1),
         min_layer         |-> Get(mod_def, "min_layer", 0)]

\* load_modifier_mesh_3d and mod_params of the 3D branch: the centroid is
\* the mean of the vertices, r_max the largest distance from it to a vertex.
ModParams3D(mod_def) ==
    LET m  == mod_def.mesh
        cx == (m.x0 + m.x1) \div 2
        cy == (m.y0 + m.y1) \div 2
        cz == (m.z0 + m.z1) \div 2
    IN  [modifier_type     |-> "3D",
         polygon           |-> [x0 |-> 0, x1 |-> 0, y0 |-> 0, y1 |-> 0],
         centroid          |-> <<cx, cy, cz>>,
         r_max             |-> Dist3D(cx, cy, cz, m.x1, m.y1, m.z1),
         center_multiplier |-> mod_def.center_multiplier,
         edge_multiplier   |-> mod_def.edge_multiplier,
         gradient_exponent |-> Get(mod_def, "gradient_exponent", 1),
         min_layer         |-> Get(mod_def, "min_layer", 0)]

\* base ** exponent for a base in multiplier units and a natural exponent;
\* 0.0 ** 0 is 1.0.
RECURSIVE PowFix(_, _)
PowFix(base, e) ==
    IF e = 0 THEN One ELSE (base * PowFix(base, e - 1)) \div One

Returned(v) == [raised |-> FALSE, value |-> v]

\* An uncaught ZeroDivisionError.
Raised == [raised |-> TRUE, value |-> 0]

\* normalized = min(r / norm_base, 1.0) ** exponent, then the interpolation
\* between center_multiplier and edge_multiplier.  r / norm_base raises when
\* norm_base is 0.
Gradient(r, norm_base, mod) ==
    IF norm_base = 0 THEN Raised
    ELSE LET normalized ==
                 PowFix(Min((r * One) \div norm_base, One), mod.gradient_exponent)
         IN  Returned(mod.center_multiplier
                        - ((mod.center_multiplier - mod.edge_multiplier) * normalized)
                            \div One)

compute_multiplier_for_modifier(x, y, z, mod) ==
    IF z < mod.min_layer THEN Returned(One)
    ELSE IF mod.modifier_type = "2D"
         THEN IF ~PolygonContains(mod.polygon, x, y) THEN Returned(One)
              ELSE Gradient(Dist2D(x, y, mod.centroid[1], mod.centroid[2]),
                            mod.r_max, mod)
    ELSE IF mod.modifier_type = "3D"
         THEN LET r3d == Dist3D(x, y, z,
                                mod.centroid[1], mod.centroid[2], mod.centroid[3])
              IN  IF r3d > mod.r_max THEN Returned(One)
                  ELSE Gradient(r3d, mod.r_max, mod)
    ELSE Returned(One)

\* The loop of compute_multiplier_multiple over mods[k..], overall so far.
RECURSIVE MultiplyFrom(_, _, _, _, _, _)
MultiplyFrom(mods, k, overall, x, y, z) ==
    IF k > Len(mods) THEN Returned(overall)
    ELSE LET m == compute_multiplier_for_modifier(x, y, z, mods[k])
         IN  IF m.raised THEN Raised
             ELSE MultiplyFrom(mods, k + 1, (overall * m.value) \div One, x, y, z)

\* A faulty variant: the running product starts at 0.0, not 1.0.
compute_multiplier_multiple_from_zero(mods, x, y, z) ==
    MultiplyFrom(mods, 1, 0, x, y, z)

compute_multiplier_multiple(mods, x, y, z) == MultiplyFrom(mods, 1, One, x, y, z)

\* line.interpolate((i + 0.5) / num_samples, normalized=True), one coordinate.
Interpolate(a, b, i, num_samples) ==
    a + ((2 * i + 1) * (b - a)) \div (2 * num_samples)

\* The loop of compute_average_multiplier from sample i on, total so far.
RECURSIVE SampleFrom(_, _, _, _, _, _, _)
SampleFrom(mods, start, end, z, num_samples, i, total) ==
    IF i >= num_samples THEN Returned(total \div num_samples)
    ELSE LET m == compute_multiplier_multiple(
                      mods,
                      Interpolate(start[1], end[1], i, num_samples),
                      Interpolate(start[2], end[2], i, num_samples),
                      z)
         IN  IF m.raised THEN Raised
             ELSE SampleFrom(mods, start, end, z, num_samples, i + 1,
                             total + m.value)

compute_average_multiplier(mods, start, end, z, num_samples) ==
    SampleFrom(mods, start, end, z, num_samples, 0, 0)

\* applicable_polys: the polygons of the 2D modifiers with z >= min_layer.
ApplicablePolys(mods, z) ==
    LET Keep(m) == m.modifier_type = "2D" /\ z >= m.min_layer
        RECURSIVE From(_)
        From(k) == IF k > Len(mods) THEN <<>>
                   ELSE IF Keep(mods[k]) THEN <<mods[k].polygon>> \o From(k + 1)
                   ELSE From(k + 1)
    IN  From(1)

\* A faulty variant: a boundary-crossing segment is averaged like any other.
compute_effective_multiplier_averaging(mods, start, end, z, num_samples) ==
    compute_average_multiplier(mods, start, end, z, num_samples)

compute_effective_multiplier(mods, start, end, z, num_samples) ==
    LET applicable_polys == ApplicablePolys(mods, z)
        start_inside == IF applicable_polys # <<>>
                        THEN UnionContains(applicable_polys, start[1], start[2])
                        ELSE TRUE
        end_inside   == IF applicable_polys # <<>>
                        THEN UnionContains(applicable_polys, end[1], end[2])
                        ELSE TRUE
    IN  IF start_inside = end_inside
        THEN compute_average_multiplier(mods, start, end, z, num_samples)
        ELSE Returned(One)

\* ------------------------------------------------------------------ inputs

None == <<>>

Some(v) == <<v>>

G1 == <<"G", "1">>

G92 == <<"G", "9", "2">>

\* "G92 E0\n"
LineResetE0 == G92 \o <<" ", "E", "0", "\n">>

\* "G92 E2 Z1\n": a reset that also carries a Z field
LineResetE2Z == G92 \o <<" ", "E", "2", " ", "Z", "1", "\n">>

\* "G92 ;E\n": a position-set line with an E but no number after it
LineResetNoNumber == G92 \o <<" ", ";", "E", "\n">>

\* "G1 X1 Y1 E1\n"
LineMoveA == G1 \o <<" ", "X", "1", " ", "Y", "1", " ", "E", "1", "\n">>

\* "G1 X3 Y1 E2.5\n"
LineMoveB == G1 \o <<" ", "X", "3", " ", "Y", "1", " ", "E", "2", ".", "5", "\n">>

\* "G1 X6 Y1 E.5\n"
LineMoveC == G1 \o <<" ", "X", "6", " ", "Y", "1", " ", "E", ".", "5", "\n">>

\* "G1 E-1 ;E9\n": a retraction, with a comment that holds an E number
LineRetract == G1 \o <<" ", "E", "-", "1", " ", ";", "E", "9", "\n">>

\* "G1 X3 E3.00000\n": a move along X alone
LineMoveXOnly ==
    G1 \o <<" ", "X", "3", " ", "E", "3", ".", "0", "0", "0", "0", "0", "\n">>

\* "G1 Y3 E+2\n": a move along Y alone
LineMoveYOnly == G1 \o <<" ", "Y", "3", " ", "E", "+", "2", "\n">>

\* "G1 X1 Y1 ;E\n": a move whose only E is in its comment
LineMoveNoNumber == G1 \o <<" ", "X", "1", " ", "Y", "1", " ", ";", "E", "\n">>

\* "G0 X6 Y1\n": a travel move
LineTravel == <<"G", "0", " ", "X", "6", " ", "Y", "1", "\n">>

\* "G1 Z1\n": a layer change
LineLayer == G1 \o <<" ", "Z", "1", "\n">>

\* ";L": a comment, the file's last line when it ends without a newline
LineComment == <<";", "L">>

\* The lines an input file is made of.
Lines ==
    {LineResetE0, LineResetE2Z, LineResetNoNumber, LineMoveA, LineMoveB,
     LineMoveC, LineRetract, LineMoveXOnly, LineMoveYOnly, LineMoveNoNumber,
     LineTravel, LineLayer, LineComment}

Box(x0, x1, y0, y1, z0, z1) ==
    [x0 |-> U(x0), x1 |-> U(x1), y0 |-> U(y0), y1 |-> U(y1),
     z0 |-> U(z0), z1 |-> U(z1)]

\* modifier1.stl of the source's modifier_defs: 2D, 1.5 / 1.5, exponent 1.
DefA ==
    [file |-> "ok", modifier_type |-> "2D", mesh |-> Box(0, 4, 0, 4, 0, 0),
     center_multiplier |-> (3 * One) \div 2, edge_multiplier |-> (3 * One) \div 2,
     gradient_exponent |-> 1, min_layer |-> 0]

\* modifier2.stl of the source's modifier_defs: 3D, 2 / 2, exponent 2.
DefV ==
    [file |-> "ok", modifier_type |-> "3D", mesh |-> Box(0, 4, 0, 4, -2, 2),
     center_multiplier |-> 2 * One, edge_multiplier |-> 2 * One,
     gradient_exponent |-> 2, min_layer |-> 0]

\* A 2D modifier with a gradient from 2 to 1, active from Z = 1, with the
\* default exponent and no modifier_type key.
DefG ==
    [file |-> "ok", mesh |-> Box(0, 4, 0, 4, 0, 0),
     center_multiplier |-> 2 * One, edge_multiplier |-> One,
     min_layer |-> U(1)]

\* A second 2D modifier, beside the first, with the default min_layer.
DefB ==
    [file |-> "ok", modifier_type |-> "2D", mesh |-> Box(5, 9, 0, 4, 0, 0),
     center_multiplier |-> 2 * One, edge_multiplier |-> 2 * One,
     gradient_exponent |-> 1]

\* A 3D modifier whose mesh is a single vertex at the origin.
DefD ==
    [file |-> "ok", modifier_type |-> "3D", mesh |-> Box(0, 0, 0, 0, 0, 0),
     center_multiplier |-> 2 * One, edge_multiplier |-> One,
     gradient_exponent |-> 1, min_layer |-> 0]

DefMissing == [DefA EXCEPT !.file = "missing"]

DefUnknown == [DefA EXCEPT !.modifier_type = "4D"]

DefCorrupt2D == [DefA EXCEPT !.file = "corrupt"]

DefCorrupt3D == [DefV EXCEPT !.file = "corrupt"]

\* A 2D modifier whose mesh is a single vertex: its hull is a point.
DefPoint2D == [DefD EXCEPT !.modifier_type = "2D"]

DefCatalog ==
    {DefA, DefV, DefG, DefB, DefD, DefMissing, DefUnknown, DefCorrupt2D,
     DefCorrupt3D, DefPoint2D}

\* The configurations the whole program is run with.
Configs ==
    {<<>>, <<DefA, DefV>>, <<DefG, DefB>>, <<DefMissing, DefUnknown, DefD>>,
     <<DefV, DefCorrupt2D>>}

\* Number of entries of a configuration in LoadSpec.
MaxDefs == 2

\* ------------------------------------------------------------------- state

VARIABLES
    pc,             \* "load", "rewrite", "done", "aborted", "crashed", "eval"
    error,          \* the uncaught exception that ended the run, or ""
    modifier_defs,  \* the configuration list
    mod_i,          \* index of the next entry of modifier_defs to load
    modifiers,      \* the modifiers loaded so far
    stdout,         \* what print has reported, one message kind per call
    input_lines,    \* the lines read from fin so far
    output_lines,   \* the lines written to fout so far
    new_E,          \* the rewritten accumulator (units of 10^-5 / One)
    last_E,         \* the last raw E value seen (units of 10^-5)
    last_x,         \* None or Some(x)
    last_y,         \* None or Some(y)
    last_z,
    positions_3d,   \* one record per rewritten move
    ev_args,        \* EvalSpec: the arguments of the call
    ev_ret          \* EvalSpec: <<>> before the call, <<result>> after it

vars ==
    <<pc, error, modifier_defs, mod_i, modifiers, stdout, input_lines,
      output_lines, new_E, last_E, last_x, last_y, last_z, positions_3d,
      ev_args, ev_ret>>

loadVars == <<modifier_defs, mod_i, modifiers>>

streamVars ==
    <<input_lines, output_lines, new_E, last_E, last_x, last_y, last_z,
      positions_3d>>

evalVars == <<ev_args, ev_ret>>

NoArgs == [start |-> <<0, 0>>, end |-> <<0, 0>>, z |-> 0, num_samples |-> NumSamples]

\* The state before the loading loop, for a given configuration.
InitWith(defs) ==
    /\ pc = "load"
    /\ error = ""
    /\ modifier_defs = defs
    /\ mod_i = 1
    /\ modifiers = <<>>
    /\ stdout = <<>>
    /\ input_lines = <<>>
    /\ output_lines = <<>>
    /\ new_E = 0
    /\ last_E = 0
    /\ last_x = None
    /\ last_y = None
    /\ last_z = 0
    /\ positions_3d = <<>>
    /\ ev_args = NoArgs
    /\ ev_ret = <<>>

Init == \E defs \in Configs : InitWith(defs)

\* ----------------------------------------------------------------- loading

\* mod_def.get("modifier_type", "2D")
ModType(mod_def) == Get(mod_def, "modifier_type", "2D")

\* The exception one iteration of the loading loop ends with, or "".
LoadError(mod_def) ==
    IF mod_def.file = "missing" THEN ""
    ELSE IF ModType(mod_def) = "2D" THEN Load2DError(mod_def)
    ELSE IF ModType(mod_def) = "3D"
         THEN IF MeshLoadRaises(mod_def) THEN "Exception" ELSE ""
    ELSE ""

\* Whether an iteration that does not raise appends a modifier.
Loads(mod_def) == mod_def.file # "missing" /\ ModType(mod_def) \in {"2D", "3D"}

ModParams(mod_def) ==
    IF ModType(mod_def) = "2D" THEN ModParams2D(mod_def) ELSE ModParams3D(mod_def)

\* What one iteration prints.
LoadMessages(mod_def) ==
    IF mod_def.file = "missing" THEN <<"not found, skipping">>
    ELSE IF ModType(mod_def) \notin {"2D", "3D"} THEN <<"unknown type, skipping">>
    ELSE IF MeshLoadRaises(mod_def) THEN <<"error loading STL file">>
    ELSE IF LoadError(mod_def) # "" THEN <<>>
    ELSE <<"loaded modifier">>

\* One iteration of `for mod_def in modifier_defs`.
LoadModifier ==
    /\ pc = "load"
    /\ mod_i <= Len(modifier_defs)
    /\ LET mod_def == modifier_defs[mod_i]
       IN  /\ stdout' = stdout \o LoadMessages(mod_def)
           /\ IF LoadError(mod_def) # ""
              THEN /\ pc' = "aborted"
                   /\ error' = LoadError(mod_def)
                   /\ UNCHANGED <<mod_i, modifiers>>
              ELSE /\ modifiers' = IF Loads(mod_def)
                                   THEN Append(modifiers, ModParams(mod_def))
                                   ELSE modifiers
                   /\ mod_i' = mod_i + 1
                   /\ UNCHANGED <<pc, error>>
    /\ UNCHANGED <<modifier_defs, streamVars, evalVars>>

\* The loading loop is over: the state variables are set and the files opened.
OpenFiles ==
    /\ pc = "load"
    /\ mod_i > Len(modifier_defs)
    /\ pc' = "rewrite"
    /\ UNCHANGED <<error, loadVars, stdout, streamVars, evalVars>>

\* The modifiers the loop yields for defs when no iteration raises.
RECURSIVE LoadedModifiers(_)
LoadedModifiers(defs) ==
    IF defs = <<>> THEN <<>>
    ELSE (IF Loads(Head(defs)) THEN <<ModParams(Head(defs))>> ELSE <<>>)
           \o LoadedModifiers(Tail(defs))

\* ----------------------------------------------------------------- rewrite

\* line.startswith("G92") and "E" in line
IsResetLine(line) == StartsWith(line, G92) /\ Contains(line, "E")

\* line.startswith("G1") and "E" in line
IsMoveLine(line) == StartsWith(line, G1) /\ Contains(line, "E")

\* float(match.group(1)) of pattern.search(line), which matched.
FieldValue(letter, line) == ParseFloat(Group1(line, PatternSearch(letter, line)))

\* A faulty variant: the delta is accumulated unscaled.
ScaledDelta_unscaled(delta_E, m) == delta_E * One

\* delta_E * m_val: a raw delta times a multiplier, in accumulator units.
ScaledDelta(delta_E, m) == delta_E * m

\* re.sub(r'E[-+]?[0-9]*\.?[0-9]+', f"E{new_E:.5f}", line)
NewLine(line, e) == ReSub(line, <<"E">> \o Format5(e))

\* The end and start of a move and the new last-known position.
MoveXY(line, lx, ly) ==
    IF PatternSearch("X", line) # 0 /\ PatternSearch("Y", line) # 0
    THEN LET x == FieldValue("X", line)
             y == FieldValue("Y", line)
         IN  [x |-> x,
              y |-> y,
              start |-> IF lx # None /\ ly # None THEN <<lx[1], ly[1]>> ELSE <<x, y>>,
              last_x |-> Some(x),
              last_y |-> Some(y)]
    ELSE IF lx # None /\ ly # None
    THEN [x |-> lx[1], y |-> ly[1], start |-> <<lx[1], ly[1]>>,
          last_x |-> lx, last_y |-> ly]
    ELSE [x |-> 0, y |-> 0, start |-> <<0, 0>>, last_x |-> lx, last_y |-> ly]

\* total_length < 1e-6: coordinates are multiples of 10^-5, so a segment
\* shorter than that has equal ends.
IsDegenerate(start, end) == start = end

\* The multiplier of a move ending at (x, y) at height z.
MoveMultiplier(mods, start, x, y, z) ==
    IF IsDegenerate(start, <<x, y>>)
    THEN compute_multiplier_multiple(mods, x, y, z)
    ELSE compute_effective_multiplier(mods, start, <<x, y>>, z, NumSamples)

\* A faulty variant: the reset line's E field is rewritten like a move's.
ResetWith_rewriting(line, matched, reset_val) ==
    [raised   |-> FALSE,
     last_E   |-> IF matched THEN reset_val ELSE last_E,
     new_E    |-> IF matched THEN reset_val * One ELSE new_E,
     last_x   |-> last_x,
     last_y   |-> last_y,
     last_z   |-> last_z,
     written  |-> <<NewLine(line, IF matched THEN reset_val * One ELSE new_E)>>,
     position |-> <<>>,
     printed  |-> IF matched THEN <<"reset extrusion with G92">> ELSE <<>>]

\* A faulty variant: the reset sets last_E and leaves new_E as it was.
ResetWith_raw_only(line, matched, reset_val) ==
    [raised   |-> FALSE,
     last_E   |-> IF matched THEN reset_val ELSE last_E,
     new_E    |-> new_E,
     last_x   |-> last_x,
     last_y   |-> last_y,
     last_z   |-> last_z,
     written  |-> <<line>>,
     position |-> <<>>,
     printed  |-> IF matched THEN <<"reset extrusion with G92">> ELSE <<>>]

\* The G92 branch, for a line whose E field parsed (matched) or did not.
ResetWith(line, matched, reset_val) ==
    [raised   |-> FALSE,
     last_E   |-> IF matched THEN reset_val ELSE last_E,
     new_E    |-> IF matched THEN reset_val * One ELSE new_E,
     last_x   |-> last_x,
     last_y   |-> last_y,
     last_z   |-> last_z,
     written  |-> <<line>>,
     position |-> <<>>,
     printed  |-> IF matched THEN <<"reset extrusion with G92">> ELSE <<>>]

ResetBody(line) ==
    ResetWith(line, PatternSearch("E", line) # 0, FieldValue("E", line))

\* A line written as it is, at height z.
PassBody(line, z) ==
    [raised   |-> FALSE,
     last_E   |-> last_E,
     new_E    |-> new_E,
     last_x   |-> last_x,
     last_y   |-> last_y,
     last_z   |-> z,
     written  |-> <<line>>,
     position |-> <<>>,
     printed  |-> <<>>]

\* The branch of a G1 line whose E field parsed, from the multiplier on:
\* the accumulation, the rewritten line and the recorded position; or the
\* state the exception leaves when the multiplier raised.
MoveResult(line, z, current_E, xy, m) ==
    [raised   |-> m.raised,
     last_E   |-> current_E,
     new_E    |-> IF m.raised THEN new_E
                  ELSE new_E + ScaledDelta(current_E - last_E, m.value),
     last_x   |-> xy.last_x,
     last_y   |-> xy.last_y,
     last_z   |-> z,
     written  |-> IF m.raised THEN <<>>
                  ELSE <<NewLine(line,
                                 new_E + ScaledDelta(current_E - last_E, m.value))>>,
     position |-> IF m.raised THEN <<>>
                  ELSE <<[x |-> xy.x, y |-> xy.y, z |-> z, m |-> m.value]>>,
     printed  |-> <<>>]

\* The branch from the end position on: the multiplier of the move.
MoveFrom(line, z, current_E, xy) ==
    MoveResult(line, z, current_E, xy,
               MoveMultiplier(modifiers, xy.start, xy.x, xy.y, z))

\* The branch of a G1 line whose E field parsed, at height z.
MoveBody(line, z) ==
    MoveFrom(line, z, FieldValue("E", line), MoveXY(line, last_x, last_y))

\* The lines after `continue`, at the height the Z field (if any) set.
AfterReset(line, z) ==
    IF IsMoveLine(line) /\ PatternSearch("E", line) # 0
    THEN MoveBody(line, z)
    ELSE PassBody(line, z)

\* The body of `for line in fin`: the values it leaves and what it writes.
LoopBody(line) ==
    IF IsResetLine(line) THEN ResetBody(line)
    ELSE AfterReset(line, IF PatternSearch("Z", line) # 0
                          THEN FieldValue("Z", line)
                          ELSE last_z)

\* A line can follow only a line that ended with a newline.
MoreLines ==
    IF input_lines = <<>> THEN TRUE
    ELSE LET l == input_lines[Len(input_lines)] IN l[Len(l)] = "\n"

\* The state after an iteration that read line and left r.
Iterate(line, r) ==
    /\ input_lines' = Append(input_lines, line)
    /\ output_lines' = output_lines \o r.written
    /\ new_E' = r.new_E
    /\ last_E' = r.last_E
    /\ last_x' = r.last_x
    /\ last_y' = r.last_y
    /\ last_z' = r.last_z
    /\ positions_3d' = positions_3d \o r.position
    /\ stdout' = stdout \o r.printed
    /\ pc' = IF r.raised THEN "crashed" ELSE "rewrite"
    /\ error' = IF r.raised THEN "ZeroDivisionError" ELSE error

\* One iteration of the rewrite loop on the next line of the input file.
ProcessLine ==
    /\ pc = "rewrite"
    /\ Len(input_lines) < MaxLines
    /\ MoreLines
    /\ \E line \in Lines : Iterate(line, LoopBody(line))
    /\ UNCHANGED <<loadVars, evalVars>>

\* fin is exhausted: the loop ends and both files are closed.
EndOfFile ==
    /\ pc = "rewrite"
    /\ pc' = "done"
    /\ UNCHANGED <<error, loadVars, stdout, streamVars, evalVars>>

Next == LoadModifier \/ OpenFiles \/ ProcessLine \/ EndOfFile

Spec == Init /\ [][Next]_vars

\* ------------------------------------------------- the loading loop alone

\* Every configuration of at most MaxDefs entries.
LoadInit ==
    \E n \in 0..MaxDefs : \E defs \in [1..n -> DefCatalog] : InitWith(defs)

LoadNext == LoadModifier \/ OpenFiles

LoadSpec == LoadInit /\ [][LoadNext]_vars

\* ------------------------------------------ the multiplier functions alone

EvalPoints ==
    {<<U(0), U(0)>>, <<U(1), U(1)>>, <<U(2), U(2)>>, <<U(3), U(1)>>,
     <<U(4), U(2)>>, <<U(6), U(1)>>, <<U(7), U(2)>>}

EvalHeights == {0, U(1)}

EvalModifierSets ==
    {LoadedModifiers(defs) :
        defs \in {<<>>, <<DefA, DefV>>, <<DefG, DefB>>, <<DefA, DefB>>, <<DefD>>}}

EvalInit ==
    /\ InitWith(<<>>)!2
    /\ InitWith(<<>>)!3
    /\ mod_i = 1
    /\ pc = "eval"
    /\ modifiers \in EvalModifierSets
    /\ stdout = <<>>
    /\ input_lines = <<>>
    /\ output_lines = <<>>
    /\ new_E = 0
    /\ last_E = 0
    /\ last_x = None
    /\ last_y = None
    /\ last_z = 0
    /\ positions_3d = <<>>
    /\ ev_args \in [start : EvalPoints, end : EvalPoints, z : EvalHeights,
                    num_samples : 1..MaxSamples]
    /\ ev_ret = <<>>

\* A call of compute_effective_multiplier(start, end, z, num_samples).
EvalSegment ==
    /\ pc = "eval"
    /\ ev_ret = <<>>
    /\ ev_ret' = <<[fn  |-> "compute_effective_multiplier",
                    ret |-> compute_effective_multiplier(
                                modifiers, ev_args.start, ev_args.end,
                                ev_args.z, ev_args.num_samples)]>>
    /\ UNCHANGED <<pc, error, loadVars, stdout, streamVars, ev_args>>

\* A call of compute_multiplier_multiple(x, y, z) at the start point.
EvalPoint ==
    /\ pc = "eval"
    /\ ev_ret = <<>>
    /\ ev_ret' = <<[fn  |-> "compute_multiplier_multiple",
                    ret |-> compute_multiplier_multiple(
                                modifiers, ev_args.start[1], ev_args.start[2],
                                ev_args.z)]>>
    /\ UNCHANGED <<pc, error, loadVars, stdout, streamVars, ev_args>>

EvalNext == EvalSegment \/ EvalPoint

EvalSpec == EvalInit /\ [][EvalNext]_vars

\* ------------------------------------------------------------- vocabulary

\* An extrusion reset line: a position-set line carrying an E value.
IsReset(line) == IsResetLine(line) /\ PatternSearch("E", line) # 0

\* An extrusion move: a linear-move line carrying a parseable E field.
IsExtrusionMove(line) ==
    ~IsResetLine(line) /\ IsMoveLine(line) /\ PatternSearch("E", line) # 0

\* The raw E value a reset line or an extrusion move carries.
RawE(line) == FieldValue("E", line)

Last(seq) == seq[Len(seq)]

\* The line the step has just read.
LineRead == Last(input_lines')

\* A step of the rewrite loop.
ReadsLine == input_lines' # input_lines

\* A step of the rewrite loop that ran to its end.
Completes == ReadsLine /\ pc' = "rewrite"

\* The accumulator the delta law gives after lines[k..], from the raw state
\* raw and the accumulator acc, the j-th recorded multiplier being that of
\* the next move.  A last move without a recorded multiplier (the run ended
\* in it) moves the raw state only.
RECURSIVE DeltaLaw(_, _, _, _, _)
DeltaLaw(lines, k, j, raw, acc) ==
    IF k > Len(lines) THEN [raw |-> raw, acc |-> acc]
    ELSE IF IsReset(lines[k])
         THEN DeltaLaw(lines, k + 1, j, RawE(lines[k]), RawE(lines[k]) * One)
    ELSE IF IsExtrusionMove(lines[k])
         THEN DeltaLaw(lines, k + 1, j + 1, RawE(lines[k]),
                       IF j <= Len(positions_3d)
                       THEN acc + (RawE(lines[k]) - raw) * positions_3d[j].m
                       ELSE acc)
    ELSE DeltaLaw(lines, k + 1, j, raw, acc)

\* The index of the last reset line or extrusion move of lines, 0 if none.
RECURSIVE LastSettingE(_, _)
LastSettingE(lines, k) ==
    IF k = 0 THEN 0
    ELSE IF IsReset(lines[k]) \/ IsExtrusionMove(lines[k]) THEN k
    ELSE LastSettingE(lines, k - 1)

\* The E field's number text of a line that has one.
ETextOf(line) == Group1(line, PatternSearch("E", line))

\* (x, y) lies strictly inside / strictly outside the polygon.
StrictlyInside(poly, p) ==
    /\ poly.x0 < p[1] /\ p[1] < poly.x1
    /\ poly.y0 < p[2] /\ p[2] < poly.y1

StrictlyOutside(poly, p) ==
    \/ p[1] < poly.x0 \/ p[1] > poly.x1
    \/ p[2] < poly.y0 \/ p[2] > poly.y1

IsPlanar(mod) == mod.modifier_type = "2D"

\* The result of a finished call of compute_effective_multiplier.
SegmentCalled ==
    /\ ev_ret # <<>>
    /\ ev_ret[1].fn = "compute_effective_multiplier"

\* ------------------------------------------------------------------ claims

\* C1: the rewrite loop writes exactly one output line per input line: after
\* the first k input lines have been read, exactly k output lines have been
\* written.
C1_OneOutputLinePerInputLine == Len(output_lines) = Len(input_lines)

C3_AccumulatorDeltaLaw ==
    /\ [](/\ new_E = DeltaLaw(input_lines, 1, 1, 0, 0).acc
          /\ last_E = DeltaLaw(input_lines, 1, 1, 0, 0).raw)
    /\ [][/\ new_E' # new_E =>
                /\ ReadsLine
                /\ IsReset(LineRead) \/ IsExtrusionMove(LineRead)
          /\ (ReadsLine /\ IsExtrusionMove(LineRead) /\ RawE(LineRead) = last_E)
                => new_E' = new_E]_vars

C3_Witness ==
    /\ input_lines = <<LineMoveA, LineRetract, LineRetract>>
    /\ Len(positions_3d) = 3
    /\ positions_3d[3].m = 3 * One
    /\ new_E = (1 * 3 - 2 * 3) * Fix * One

\* C4: a step that reads an extrusion reset line carrying E value v sets
\* last_E and new_E to v, writes the line unchanged and changes neither
\* last_x, last_y, last_z nor positions_3d; and when the last reset or move
\* read was a reset to v, an extrusion move with raw E e and multiplier m
\* leaves new_E = v + (e - v) * m and writes that value as its E field.
C4_ResetResynchronizes ==
    [][/\ (ReadsLine /\ IsReset(LineRead)) =>
             /\ last_E' = RawE(LineRead)
             /\ new_E' = RawE(LineRead) * One
             /\ output_lines' = Append(output_lines, LineRead)
             /\ UNCHANGED <<last_x, last_y, last_z, positions_3d>>
       /\ (/\ Completes
           /\ IsExtrusionMove(LineRead)
           /\ LastSettingE(input_lines, Len(input_lines)) # 0
           /\ IsReset(input_lines[LastSettingE(input_lines, Len(input_lines))])) =>
             /\ new_E' =
                  RawE(input_lines[LastSettingE(input_lines, Len(input_lines))]) * One
                    + (RawE(LineRead)
                         - RawE(input_lines[LastSettingE(input_lines,
                                                         Len(input_lines))]))
                        * Last(positions_3d').m
             /\ ETextOf(Last(output_lines')) = Format5(new_E')]_vars

C4_Witness ==
    /\ input_lines = <<LineMoveA, LineResetE2Z, LineMoveB>>
    /\ Last(positions_3d).m = 3 * One
    /\ new_E = (2 * 10 + 5 * 3) * (Fix \div 10) * One
    /\ last_z = 0
    /\ ETextOf(Last(output_lines)) = <<"3", ".", "5", "0", "0", "0", "0">>

C6_CrossingAnyPlanarIsNeutral ==
    SegmentCalled =>
        \A k \in 1..Len(modifiers) :
            (/\ IsPlanar(modifiers[k])
             /\ \/ /\ StrictlyInside(modifiers[k].polygon, ev_args.start)
                   /\ StrictlyOutside(modifiers[k].polygon, ev_args.end)
                \/ /\ StrictlyInside(modifiers[k].polygon, ev_args.end)
                   /\ StrictlyOutside(modifiers[k].polygon, ev_args.start))
            => ev_ret[1].ret = Returned(One)

\* Some planar modifier active at z holds p strictly inside it.
InsideSomeActive(p) ==
    \E k \in 1..Len(modifiers) :
        /\ IsPlanar(modifiers[k])
        /\ ev_args.z >= modifiers[k].min_layer
        /\ StrictlyInside(modifiers[k].polygon, p)

\* p is strictly outside every planar modifier active at z.
OutsideAllActive(p) ==
    \A k \in 1..Len(modifiers) :
        (IsPlanar(modifiers[k]) /\ ev_args.z >= modifiers[k].min_layer)
            => StrictlyOutside(modifiers[k].polygon, p)

\* The segment of the call crosses the boundary of the active planar region.
CrossesActiveRegion ==
    \/ InsideSomeActive(ev_args.start) /\ OutsideAllActive(ev_args.end)
    \/ InsideSomeActive(ev_args.end) /\ OutsideAllActive(ev_args.start)

\* C6 as amended: for every sample count, a segment with one end strictly
\* inside a planar modifier that is active at z and the other end strictly
\* outside every planar modifier active at z gets exactly 1.0.
C6_CrossingActiveRegionIsNeutral ==
    (SegmentCalled /\ CrossesActiveRegion) => ev_ret[1].ret = Returned(One)

C6_Witness ==
    /\ SegmentCalled
    /\ CrossesActiveRegion
    /\ Len(modifiers) = 2
    /\ ev_args.num_samples = 3
    /\ ev_ret[1].ret = Returned(One)
    /\ compute_average_multiplier(modifiers, ev_args.start, ev_args.end,
                                  ev_args.z, ev_args.num_samples)
         # Returned(One)

\* C7: evaluating a modifier at a point never raises a division error, a
\* modifier with r_max = 0 included, so no run of the rewriter ends in one.
C7_PointEvaluationNeverRaises == error # "ZeroDivisionError"

\* C8: loading never aborts the run: an entry whose file is missing, whose
\* type is unknown or whose mesh fails to load is skipped, and the rewrite is
\* reached with the modifiers of the remaining entries, in order.
C8_LoadingNeverAborts ==
    /\ pc # "aborted"
    /\ pc = "rewrite" => modifiers = LoadedModifiers(modifier_defs)

\* C9: after an extrusion move whose line carries an X field and/or a Y
\* field, the move's recorded end position has the line's X (if any) and the
\* line's Y (if any), and last_x, last_y hold that end position.
C9_ExplicitXorYIsUsed ==
    (/\ pc \in {"rewrite", "done"}
     /\ input_lines # <<>>
     /\ IsExtrusionMove(Last(input_lines))) =>
        /\ PatternSearch("X", Last(input_lines)) # 0 =>
              /\ Last(positions_3d).x = FieldValue("X", Last(input_lines))
              /\ last_x = Some(FieldValue("X", Last(input_lines)))
        /\ PatternSearch("Y", Last(input_lines)) # 0 =>
              /\ Last(positions_3d).y = FieldValue("Y", Last(input_lines))
              /\ last_y = Some(FieldValue("Y", Last(input_lines)))

\* C10: a rewritten extrusion move differs from its input line only in the E
\* field: the text before the field and the text after it are the input's.
C10_OnlyEFieldDiffers ==
    \A i \in 1..Len(output_lines) :
        IsExtrusionMove(input_lines[i]) =>
            /\ SubSeq(output_lines[i], 1, PatternSearch("E", input_lines[i]))
                 = SubSeq(input_lines[i], 1, PatternSearch("E", input_lines[i]))
            /\ SubSeq(output_lines[i],
                      MatchNumber(output_lines[i],
                                  PatternSearch("E", input_lines[i]) + 1),
                      Len(output_lines[i]))
                 = SubSeq(input_lines[i],
                          MatchNumber(input_lines[i],
                                      PatternSearch("E", input_lines[i]) + 1),
                          Len(input_lines[i]))

=============================================================================
